---------------------------- MODULE Spec2Model ----------------------------
(***************************************************************************)
(* Burrows-Delta authorship attribution (notebook nb-burrows-delta):       *)
(*   load_directory  - cuts every .txt source into chunks of max_length    *)
(*                     whitespace tokens;                                   *)
(*   Delta.fit       - stores the labels and the scale-only standardized   *)
(*                     training matrix;                                     *)
(*   Delta.predict   - nearest reference row under cityblock or cosine;    *)
(*   CountVectorizer - counts the tokens of a supplied vocabulary;         *)
(*   normalize       - divides every row of the counts by its L1 norm.     *)
(* Strings are sequences of one-character strings.  Numbers are exact      *)
(* rationals <<numerator, denominator>> in lowest terms.                   *)
(***************************************************************************)
EXTENDS Integers, Sequences, FiniteSets, TLC

VARIABLES
    \* ---- load_directory ----
    l_pc,         \* "scan": head of the for loop, "chunk": head of the while loop,
                  \* "done": returned, "raised": left by an IndexError
    remaining,    \* directory entries os.scandir has not yielded yet
    max_length,   \* the chunk length argument
    filename,     \* name of the entry being processed (<<>> before the first)
    contents,     \* what f.read() returned for that entry
    lemmas,       \* contents.lower().split()
    start_idx, end_idx, segm_cnt,
    documents, authors, titles,
    doc_base,     \* len(documents) when the current entry was opened
    \* ---- one instance of Delta and the cell that calls it ----
    d_pc,         \* "idle": between calls, "returned": a call has just ended
    op,           \* the call that ended: "fit", "predict" ("none" when idle)
    attrs,        \* the attributes the instance has: a subset of {"train_y", "scaler", "train_X"}
    train_y,      \* self.train_y
    scaler,       \* self.scaler: [fitted, n_features_in_, scale_]
    train_X,      \* self.train_X
    X_arg,        \* the array passed as X, as it was when the call was made
    X_caller,     \* that array of the caller's, as it is after the call
    y_arg,        \* the caller's list passed as y
    metric_arg,   \* the metric argument ("omitted" when not given)
    ret,          \* what the call gave the caller: [kind, value]
    fit_called,   \* history: fit has been called on the instance
    fit_width,    \* history: V of the latest fit that returned (0: none yet)
    last_fit,     \* history: the arguments of the latest fit call, and whether it returned
    fits_ok,      \* history: how many fit calls have returned (counted up to 2)
    prev_metric,  \* history: the metric of the latest predict that returned labels since
                  \* the latest fit call and before the call at hand ("none": there is none)
    \* ---- the vectorizer, the word list and the cells that vectorize and normalize ----
    v_pc,         \* "idle": between cells, "called": a vectorizer call has ended,
                  \* "normed": normalize has ended
    v_op,         \* the call that ended: "fit_transform", "transform", "normalize" ("none" when idle)
    vocab,        \* the list the word list was read into, passed as vocabulary=
    vocabulary_,  \* the vectorizer's tokens in index order (<<>>: the attribute is not set)
    docs_arg,     \* the documents passed to the vectorizer
    v_documents,  \* the matrix the calls gave (entries are rationals, a count c is c/1)
    v_ret,        \* "ok" or the exception of the call that ended ("none" when idle)
    norm_passes,  \* how often normalize has run on v_documents
    vec_calls,    \* history: how many vectorizer calls have returned (counted up to 2)
    \* ---- the cell that reads the word list ----
    w_pc,         \* "start": the cell has not run, "read": vocab is assigned
    wordlist,     \* the text of data/wordlist.txt
    \* ---- the cells of the PCA notebook that standardize, stack and rescale ----
    p_pc,         \* "start", "fitted": scaler.fit_transform ran, "transformed":
                  \* scaler.transform ran, "scaled": preprocessing.scale ran, "raised"
    p_scaler,     \* scaler: [fitted, mean_, scale_]
    p_documents,  \* v_documents of the notebook
    p_test_docs,  \* v_test_docs of the notebook
    all_documents,
    known_in,     \* history: v_documents as normalize left it, before the scaler
    test_in       \* history: v_test_docs as normalize left it, before the scaler

loadVars == <<l_pc, remaining, max_length, filename, contents, lemmas,
              start_idx, end_idx, segm_cnt, documents, authors, titles, doc_base>>

deltaVars == <<d_pc, op, attrs, train_y, scaler, train_X, X_arg, X_caller, y_arg, metric_arg, ret,
               fit_called, fit_width, last_fit, fits_ok, prev_metric>>

vecVars == <<v_pc, v_op, vocab, vocabulary_, docs_arg, v_documents, v_ret, norm_passes, vec_calls>>

vocabVars == <<w_pc, wordlist>>

pcaVars == <<p_pc, p_scaler, p_documents, p_test_docs, all_documents, known_in, test_in>>

vars == <<loadVars, deltaVars, vecVars, vocabVars, pcaVars>>

(***************************************************************************)
(* Bounds of the model.                                                    *)
(***************************************************************************)
MaxTokens == 5      \* tokens per source text
MaxChunk == 2       \* largest chunk length tried
MaxN == 2           \* rows of a training matrix
MaxVocab == 2       \* tokens in the word list
MaxDocTokens == 2   \* whitespace tokens of a document given to the vectorizer
MaxLines == 2       \* lines of a short word list

(***************************************************************************)
(* Strings.                                                                *)
(***************************************************************************)
IsSpace(c) == c \in {" ", "\n"}

\* str.lower(), per character
LowerChar(c) == CASE c = "A" -> "a" [] c = "B" -> "b" [] c = "C" -> "c" [] OTHER -> c

Lower(s) == [i \in DOMAIN s |-> LowerChar(s[i])]

\* str.split(): the maximal runs of non-whitespace characters, in order
RECURSIVE SplitFrom(_, _, _, _)
SplitFrom(s, i, cur, acc) ==
    IF i > Len(s)
    THEN IF cur = <<>> THEN acc ELSE Append(acc, cur)
    ELSE IF IsSpace(s[i])
         THEN SplitFrom(s, i + 1, <<>>, IF cur = <<>> THEN acc ELSE Append(acc, cur))
         ELSE SplitFrom(s, i + 1, Append(cur, s[i]), acc)

Split(s) == SplitFrom(s, 1, <<>>, <<>>)

\* ' '.join(tokens)
RECURSIVE Join(_)
Join(tokens) ==
    IF tokens = <<>> THEN <<>>
    ELSE IF Len(tokens) = 1 THEN tokens[1]
    ELSE tokens[1] \o <<" ">> \o Join(Tail(tokens))

Min(a, b) == IF a < b THEN a ELSE b

\* seq[lo:hi] with 0 <= lo, 0 <= hi (Python clips the slice to the sequence)
Slice(seq, lo, hi) ==
    IF Min(hi, Len(seq)) <= lo THEN <<>> ELSE SubSeq(seq, lo + 1, Min(hi, Len(seq)))


EndsWith(s, suf) ==
    /\ Len(suf) <= Len(s)
    /\ SubSeq(s, Len(s) - Len(suf) + 1, Len(s)) = suf

StartsWithAt(s, i, pat) ==
    /\ i + Len(pat) - 1 <= Len(s)
    /\ SubSeq(s, i, i + Len(pat) - 1) = pat

\* s.replace(old, ''), old non-empty
RECURSIVE RemoveFrom(_, _, _)
RemoveFrom(s, i, old) ==
    IF i > Len(s) THEN <<>>
    ELSE IF StartsWithAt(s, i, old) THEN RemoveFrom(s, i + Len(old), old)
    ELSE <<s[i]>> \o RemoveFrom(s, i + 1, old)

Remove(s, old) == RemoveFrom(s, 1, old)

\* s.split(sep) for a one-character separator: empty segments are kept
RECURSIVE SplitOnFrom(_, _, _, _, _)
SplitOnFrom(s, i, sep, cur, acc) ==
    IF i > Len(s) THEN Append(acc, cur)
    ELSE IF s[i] = sep THEN SplitOnFrom(s, i + 1, sep, <<>>, Append(acc, cur))
    ELSE SplitOnFrom(s, i + 1, sep, Append(cur, s[i]), acc)

SplitOn(s, sep) == SplitOnFrom(s, 1, sep, <<>>, <<>>)

\* os.path.splitext(name)[0]: the name up to its last dot (a leading dot is no extension)
LastDot(s) ==
    LET dots == {i \in 2..Len(s) : s[i] = "."}
    IN  IF dots = {} THEN 0 ELSE CHOOSE i \in dots : \A j \in dots : j <= i

SplitExtRoot(s) == IF LastDot(s) = 0 THEN s ELSE SubSeq(s, 1, LastDot(s) - 1)

\* str(n) for n >= 0
DigitChar(d) ==
    CASE d = 0 -> "0" [] d = 1 -> "1" [] d = 2 -> "2" [] d = 3 -> "3" [] d = 4 -> "4"
      [] d = 5 -> "5" [] d = 6 -> "6" [] d = 7 -> "7" [] d = 8 -> "8" [] OTHER -> "9"

RECURSIVE IntStr(_)
IntStr(n) == IF n < 10 THEN <<DigitChar(n)>> ELSE IntStr(n \div 10) \o <<DigitChar(n % 10)>>

(***************************************************************************)
(* Exact rational numbers <<n, d>>, d > 0, in lowest terms.               *)
(***************************************************************************)
AbsInt(n) == IF n < 0 THEN -n ELSE n

RECURSIVE GCD(_, _)
GCD(a, b) == IF b = 0 THEN a ELSE GCD(b, a % b)

Rat(n, d) ==
    LET g == GCD(AbsInt(n), AbsInt(d))
        sgn == IF d < 0 THEN -1 ELSE 1
    IN  <<(sgn * n) \div g, (sgn * d) \div g>>

Zero == <<0, 1>>
One == <<1, 1>>

RAdd(a, b) == Rat(a[1] * b[2] + b[1] * a[2], a[2] * b[2])
RSub(a, b) == Rat(a[1] * b[2] - b[1] * a[2], a[2] * b[2])
RMul(a, b) == Rat(a[1] * b[1], a[2] * b[2])
RDiv(a, b) == Rat(a[1] * b[2], a[2] * b[1])      \* b # Zero
RNeg(a) == <<-a[1], a[2]>>
RAbs(a) == <<AbsInt(a[1]), a[2]>>
RLess(a, b) == a[1] * b[2] < b[1] * a[2]
RLeq(a, b) == a[1] * b[2] <= b[1] * a[2]

RECURSIVE RSumTo(_, _)
RSumTo(f, n) == IF n = 0 THEN Zero ELSE RAdd(RSumTo(f, n - 1), f[n])

\* the sum of the entries of a sequence of rationals
RSum(f) == RSumTo(f, Len(f))

IsSquareInt(n) == \E r \in 0..n : r * r = n

SqrtInt(n) == CHOOSE r \in 0..n : r * r = n

\* a rational in lowest terms has a rational square root iff both parts are squares
HasRSqrt(a) == a[1] >= 0 /\ IsSquareInt(a[1]) /\ IsSquareInt(a[2])

RSqrt(a) == <<SqrtInt(a[1]), SqrtInt(a[2])>>

(***************************************************************************)
(* Matrices: sequences of rows, a row a sequence of rationals.            *)
(***************************************************************************)
NRows(X) == Len(X)

NCols(X) == IF X = <<>> THEN 0 ELSE Len(X[1])

Column(X, j) == [i \in 1..Len(X) |-> X[i][j]]

Matrices(n, v, vals) == [1..n -> [1..v -> vals]]

(***************************************************************************)
(* The corpus on disk: the directory entries and what their files hold.   *)
(***************************************************************************)
TxtExt == <<".", "t", "x", "t">>

FileNames ==
    { <<"B", "_", "e", "p", ".", "t", "x", "t">>,
      <<"G", "_", "m", "_", "2", ".", "t", "x", "t">>,
      <<"x", ".", "t", "x", "t">>,
      <<"n", ".", "m", "d">> }

\* a directory holds up to two of these entries
Directories == { d \in SUBSET FileNames : Cardinality(d) <= 2 }

Words == { <<"a">>, <<"B", "c">> }

TokenSeqs == UNION { [1..k -> Words] : k \in 0..MaxTokens }

\* the tokens written out with separator sep between them and pad around them
RECURSIVE Render(_, _)
Render(tokens, sep) ==
    IF tokens = <<>> THEN <<>>
    ELSE IF Len(tokens) = 1 THEN tokens[1]
    ELSE tokens[1] \o sep \o Render(Tail(tokens), sep)

Texts ==
    { Render(t, <<" ">>) : t \in TokenSeqs }
      \cup { <<"\n">> \o Render(t, <<" ", "\n">>) \o <<" ">> : t \in TokenSeqs }

ChunkLengths == 0..MaxChunk

(***************************************************************************)
(* load_directory                                                          *)
(***************************************************************************)
LoadEntry ==
    /\ l_pc = "scan"
    /\ remaining \in Directories
    /\ max_length \in ChunkLengths
    /\ filename = <<>>
    /\ contents = <<>>
    /\ lemmas = <<>>
    /\ start_idx = 0
    /\ end_idx = 0
    /\ segm_cnt = 0
    /\ documents = <<>>
    /\ authors = <<>>
    /\ titles = <<>>
    /\ doc_base = 0

\* for filename in os.scandir(directory): an entry that is no .txt file is skipped
ScanSkip ==
    /\ l_pc = "scan"
    /\ \E name \in remaining :
          /\ ~EndsWith(name, TxtExt)
          /\ remaining' = remaining \ {name}
    /\ UNCHANGED <<l_pc, max_length, filename, contents, lemmas, start_idx, end_idx,
                   segm_cnt, documents, authors, titles, doc_base, deltaVars, vecVars, vocabVars, pcaVars>>

\* the next .txt entry is read, lowercased and split; the window is set to [0, max_length)
ScanOpen ==
    /\ l_pc = "scan"
    /\ \E name \in remaining, text \in Texts :
          /\ EndsWith(name, TxtExt)
          /\ remaining' = remaining \ {name}
          /\ filename' = name
          /\ contents' = text
          /\ lemmas' = Split(Lower(text))
    /\ start_idx' = 0
    /\ end_idx' = max_length
    /\ segm_cnt' = 1
    /\ doc_base' = Len(documents)
    /\ l_pc' = "chunk"
    /\ UNCHANGED <<max_length, documents, authors, titles, deltaVars, vecVars, vocabVars, pcaVars>>

\* while end_idx < len(lemmas)
WhileCondOvershoot(e, n) == e <= n + 1

WhileCond(e, n) == e < n

NextStartByOne(s, L) == s + 1

NextStart(s, L) == s + L

NextEndStuck(e, L) == e

NextEnd(e, L) == e + L

FirstChar(s) == <<s[1]>>

Author == SplitExtRoot(filename)

\* filename.name.replace('.txt', '').split('_')
TitleParts == SplitOn(Remove(filename, TxtExt), "_")

TitleLast == TitleParts[Len(TitleParts)]

Title == TitleParts[2]

\* one pass of the while loop (followed for MaxTokens passes per source)
ChunkStep ==
    /\ l_pc = "chunk"
    /\ WhileCond(end_idx, Len(lemmas))
    /\ segm_cnt <= MaxTokens
    /\ Len(TitleParts) >= 2
    /\ documents' = Append(documents, Join(Slice(lemmas, start_idx, end_idx)))
    /\ authors' = Append(authors, FirstChar(Author))
    /\ titles' = Append(titles, Title \o <<"-">> \o IntStr(segm_cnt))
    /\ start_idx' = NextStart(start_idx, max_length)
    /\ end_idx' = NextEnd(end_idx, max_length)
    /\ segm_cnt' = segm_cnt + 1
    /\ UNCHANGED <<l_pc, remaining, max_length, filename, contents, lemmas, doc_base, deltaVars, vecVars, vocabVars, pcaVars>>

\* a pass of the while loop on a name without '_': split('_')[1] raises IndexError
\* after the document and the author were appended
ChunkRaise ==
    /\ l_pc = "chunk"
    /\ WhileCond(end_idx, Len(lemmas))
    /\ segm_cnt <= MaxTokens
    /\ Len(TitleParts) < 2
    /\ documents' = Append(documents, Join(Slice(lemmas, start_idx, end_idx)))
    /\ authors' = Append(authors, FirstChar(Author))
    /\ l_pc' = "raised"
    /\ UNCHANGED <<remaining, max_length, filename, contents, lemmas, start_idx, end_idx,
                   segm_cnt, titles, doc_base, deltaVars, vecVars, vocabVars, pcaVars>>

\* the while loop ends: back to the for loop
ChunkExit ==
    /\ l_pc = "chunk"
    /\ ~WhileCond(end_idx, Len(lemmas))
    /\ l_pc' = "scan"
    /\ UNCHANGED <<remaining, max_length, filename, contents, lemmas, start_idx, end_idx,
                   segm_cnt, documents, authors, titles, doc_base, deltaVars, vecVars, vocabVars, pcaVars>>

\* return documents, authors, titles
LoadReturn ==
    /\ l_pc = "scan"
    /\ remaining = {}
    /\ l_pc' = "done"
    /\ UNCHANGED <<remaining, max_length, filename, contents, lemmas, start_idx, end_idx,
                   segm_cnt, documents, authors, titles, doc_base, deltaVars, vecVars, vocabVars, pcaVars>>

NextLoad == ScanSkip \/ ScanOpen \/ ChunkStep \/ ChunkRaise \/ ChunkExit \/ LoadReturn

(***************************************************************************)
(* sklearn.preprocessing.StandardScaler(with_mean=False)                   *)
(***************************************************************************)
NewScaler == [fitted |-> FALSE, n_features_in_ |-> 0, scale_ |-> <<>>]

Mean(col) == RDiv(RSum(col), <<Len(col), 1>>)

\* population variance: the mean squared deviation from the mean
Variance(col) ==
    LET m == Mean(col)
    IN  RDiv(RSum([i \in 1..Len(col) |-> RMul(RSub(col[i], m), RSub(col[i], m))]),
             <<Len(col), 1>>)

\* scale_ = sqrt(var_), a zero replaced by 1
ColumnScaleVariance(col) == IF Variance(col) = Zero THEN One ELSE Variance(col)

ColumnScaleTwo(col) == IF Variance(col) = Zero THEN <<2, 1>> ELSE RSqrt(Variance(col))

ColumnScale(col) == IF Variance(col) = Zero THEN One ELSE RSqrt(Variance(col))

ScaleOf(X) == [j \in 1..NCols(X) |-> ColumnScale(Column(X, j))]

\* the row divided by scale_, feature by feature; no mean is subtracted
ScaleRow(row, scale_) == [j \in 1..Len(row) |-> RDiv(row[j], scale_[j])]

TransformRows(X, scale_) == [i \in 1..Len(X) |-> ScaleRow(X[i], scale_)]

\* check_array(ensure_min_samples=1)
ValidSamplesAny(X) == TRUE

ValidSamples(X) == NRows(X) >= 1

\* transform: X has as many features as the scaler was fitted with
NFeaturesAtMost(X, n) == \A i \in 1..Len(X) : Len(X[i]) <= n

NFeaturesOk(X, n) == \A i \in 1..Len(X) : Len(X[i]) = n

FittedScaler(X) == [fitted |-> TRUE, n_features_in_ |-> NCols(X), scale_ |-> ScaleOf(X)]

\* transform reads scale_ and leaves the scaler as it is
ScalerAfterRefit(sc, X) == FittedScaler(X)

ScalerAfterTransform(sc, X) == sc

\* copy=True: transform divides a copy, the caller's array keeps its values
CallerArrayAfterTransform(X, scale_) == X

(***************************************************************************)
(* scipy.spatial.distance.cdist and numpy.argmin                           *)
(***************************************************************************)
\* def predict(self, X, metric='cityblock'): the metric of this call, nothing kept
\* from an earlier call
EffectiveMetricKept(m) ==
    IF prev_metric # "none" THEN prev_metric ELSE IF m = "omitted" THEN "cityblock" ELSE m

EffectiveMetric(m) == IF m = "omitted" THEN "cityblock" ELSE m

Dot(u, v) == RSum([j \in 1..Len(u) |-> RMul(u[j], v[j])])

\* sum of |u_j - v_j|
Cityblock(u, v) == RSum([j \in 1..Len(u) |-> RAbs(RSub(u[j], v[j]))])

\* 1 - u.v / (|u| |v|) is NaN (0/0) when u or v is the zero vector.  Otherwise it is
\* 1 - sign(u.v) * sqrt(q) with q = (u.v)^2 / ((u.u)(v.v)): the entry keeps
\* ord = -sign(u.v) * q, which orders the cosine distances of a row as they are ordered.
CosineEntry(u, v) ==
    LET uu == Dot(u, u)
        vv == Dot(v, v)
        uv == Dot(u, v)
        q  == RDiv(RMul(uv, uv), RMul(uu, vv))
    IN  IF uu = Zero \/ vv = Zero
        THEN [nan |-> TRUE, ord |-> Zero]
        ELSE [nan |-> FALSE, ord |-> IF RLess(uv, Zero) THEN q ELSE RNeg(q)]

DistEntry(metric, u, v) ==
    IF metric = "cosine" THEN CosineEntry(u, v)
    ELSE [nan |-> FALSE, ord |-> Cityblock(u, v)]

\* dists[i][r]: query row i against reference row r
Cdist(XA, XB, metric) ==
    [i \in 1..Len(XA) |-> [r \in 1..Len(XB) |-> DistEntry(metric, XA[i], XB[r])]]

ArgMax(row) ==
    CHOOSE r \in 1..Len(row) :
        /\ \A q \in 1..Len(row) : RLeq(row[q].ord, row[r].ord)
        /\ \A q \in 1..(r - 1) : RLess(row[q].ord, row[r].ord)

\* numpy.argmin of one row: the first NaN if there is one, else the first minimum
ArgMin(row) ==
    IF \E r \in 1..Len(row) : row[r].nan
    THEN CHOOSE r \in 1..Len(row) : row[r].nan /\ \A q \in 1..(r - 1) : ~row[q].nan
    ELSE CHOOSE r \in 1..Len(row) :
            /\ \A q \in 1..Len(row) : RLeq(row[r].ord, row[q].ord)
            /\ \A q \in 1..(r - 1) : RLess(row[r].ord, row[q].ord)

(***************************************************************************)
(* class Delta                                                             *)
(***************************************************************************)
Labels == {"A", "B"}

TrainVals == {Zero, One}

QueryVals == {Zero, One}

\* V: a matrix has one feature or two
Widths == {1, 2}

\* a query holds no row, one row, or two
QueryRowCounts == {0, 1, 2}

MetricArgs == {"omitted", "cityblock", "cosine"}

\* the training matrices tried: those whose column deviations are rational, so that
\* every distance is compared exactly
TrainMatrices ==
    { X \in UNION { Matrices(n, v, TrainVals) : n \in 0..MaxN, v \in Widths } :
        \A j \in 1..NCols(X) : HasRSqrt(Variance(Column(X, j))) }

LabelLists == UNION { [1..n -> Labels] : n \in 0..MaxN }

\* the query [[0.9, 0.1]]
ScenarioQuery == << <<Rat(9, 10), Rat(1, 10)>> >>

QueryMatrices ==
    UNION { Matrices(m, v, QueryVals) : m \in QueryRowCounts, v \in Widths }
        \cup {ScenarioQuery}

NoRet == [kind |-> "none", value |-> <<>>]

Raise(kind) == [kind |-> kind, value |-> <<>>]

\* delta = Delta(): an instance without attributes
DeltaFresh ==
    /\ d_pc = "idle"
    /\ op = "none"
    /\ attrs = {}
    /\ train_y = <<>>
    /\ scaler = NewScaler
    /\ train_X = <<>>
    /\ X_arg = <<>>
    /\ X_caller = <<>>
    /\ y_arg = <<>>
    /\ metric_arg = "omitted"
    /\ ret = NoRet
    /\ fit_called = FALSE
    /\ fit_width = 0
    /\ last_fit = [X |-> <<>>, y |-> <<>>, ok |-> FALSE]
    /\ fits_ok = 0
    /\ prev_metric = "none"

\* no load_directory call is running
LoadParked ==
    /\ l_pc = "done"
    /\ remaining = {}
    /\ max_length = 1
    /\ filename = <<>>
    /\ contents = <<>>
    /\ lemmas = <<>>
    /\ start_idx = 0
    /\ end_idx = 0
    /\ segm_cnt = 0
    /\ documents = <<>>
    /\ authors = <<>>
    /\ titles = <<>>
    /\ doc_base = 0

\* self.scaler.fit_transform(X): it raises when X fails validation, else it fits the
\* scaler and returns X divided by scale_
FitTransform(X) ==
    IF ValidSamples(X)
    THEN [ok |-> TRUE, scaler |-> FittedScaler(X), out |-> TransformRows(X, ScaleOf(X))]
    ELSE [ok |-> FALSE, scaler |-> NewScaler, out |-> <<>>]

\* the training matrices tried, each with what fit_transform makes of it
FitCases == { [X |-> X, ft |-> FitTransform(X)] : X \in TrainMatrices }

\* self.train_y = np.array(y): the labels given replace the stored ones
StoredLabelsMerged(old, y) == old \o y

StoredLabels(old, y) == y

\* delta.fit(X, y): train_y and a new scaler are assigned before fit_transform
\* validates X, train_X only when fit_transform returns
Fit ==
    /\ d_pc = "idle"
    /\ \E c \in FitCases, y \in LabelLists :
          /\ X_arg' = c.X
          /\ X_caller' = c.X
          /\ y_arg' = y
          /\ train_y' = StoredLabels(train_y, y)
          /\ scaler' = c.ft.scaler
          /\ train_X' = IF c.ft.ok THEN c.ft.out ELSE train_X
          /\ attrs' = attrs \cup {"train_y", "scaler"}
                        \cup (IF c.ft.ok THEN {"train_X"} ELSE {})
          /\ ret' = IF c.ft.ok THEN [kind |-> "ok", value |-> <<>>] ELSE Raise("ValueError")
          /\ fit_width' = IF c.ft.ok THEN NCols(c.X) ELSE fit_width
          /\ last_fit' = [X |-> c.X, y |-> y, ok |-> c.ft.ok]
          /\ fits_ok' = IF c.ft.ok THEN Min(fits_ok + 1, 2) ELSE fits_ok
    /\ fit_called' = TRUE
    /\ op' = "fit"
    /\ d_pc' = "returned"
    /\ UNCHANGED <<metric_arg, prev_metric, loadVars, vecVars, vocabVars, pcaVars>>

\* self.scaler.transform: the instance has no scaler, or the scaler is not fitted
RaiseSwallowed(kind) == [kind |-> "ok", value |-> <<>>]

RaiseUnfit(kind) == Raise(kind)

\* self.train_y[np.argmin(dists, axis=1)]
TakeLabels(y, idx) ==
    IF \E i \in 1..Len(idx) : idx[i] > Len(y)
    THEN Raise("IndexError")
    ELSE [kind |-> "ok", value |-> [i \in 1..Len(idx) |-> y[idx[i]]]]

\* transform runs when the scaler is there, is fitted, and X passes validation
TransformRuns(X) ==
    /\ "scaler" \in attrs
    /\ scaler.fitted
    /\ ValidSamples(X)
    /\ NFeaturesOk(X, scaler.n_features_in_)

\* the instance as predict reads it
Self == [attrs |-> attrs, train_y |-> train_y, scaler |-> scaler, train_X |-> train_X]

\* the body of predict run on the instance self
PredictOn(self, X, metric) ==
    IF "scaler" \notin self.attrs THEN RaiseUnfit("AttributeError")
    ELSE IF ~self.scaler.fitted THEN RaiseUnfit("NotFittedError")
    ELSE IF ~ValidSamples(X) THEN Raise("ValueError")
    ELSE IF ~NFeaturesOk(X, self.scaler.n_features_in_) THEN Raise("ValueError")
    ELSE LET dists == Cdist(TransformRows(X, self.scaler.scale_), self.train_X,
                            EffectiveMetric(metric))
         IN  TakeLabels(self.train_y, [i \in 1..Len(dists) |-> ArgMin(dists[i])])

PredictResult(X, metric) == PredictOn(Self, X, metric)

\* delta.predict(X) or delta.predict(X, metric=...)
Predict ==
    /\ d_pc = "idle"
    /\ \E X \in QueryMatrices, m \in MetricArgs :
          /\ X_arg' = X
          /\ metric_arg' = m
          /\ ret' = PredictResult(X, m)
          /\ scaler' = IF TransformRuns(X) THEN ScalerAfterTransform(scaler, X) ELSE scaler
          /\ X_caller' = IF TransformRuns(X)
                         THEN CallerArrayAfterTransform(X, scaler.scale_) ELSE X
    /\ op' = "predict"
    /\ d_pc' = "returned"
    /\ UNCHANGED <<attrs, train_y, train_X, y_arg, fit_called, fit_width, last_fit, fits_ok,
                   prev_metric, loadVars, vecVars, vocabVars, pcaVars>>

\* the cell goes on with what the call gave it
Resume ==
    /\ d_pc = "returned"
    /\ d_pc' = "idle"
    /\ op' = "none"
    /\ X_arg' = <<>>
    /\ X_caller' = <<>>
    /\ y_arg' = <<>>
    /\ metric_arg' = "omitted"
    /\ ret' = NoRet
    /\ prev_metric' = IF op = "fit" THEN "none"
                      ELSE IF ret.kind = "ok" THEN EffectiveMetric(metric_arg)
                      ELSE prev_metric
    /\ UNCHANGED <<attrs, train_y, scaler, train_X, fit_called, fit_width, last_fit, fits_ok,
                   loadVars, vecVars, vocabVars, pcaVars>>

NextDelta == Fit \/ Predict \/ Resume

(***************************************************************************)
(* sklearn.feature_extraction.text.CountVectorizer(token_pattern=          *)
(* r"(?u)\b\w+\b", vocabulary=vocab) and sklearn.preprocessing.normalize   *)
(***************************************************************************)
VocabTokens == { <<"a">>, <<"b", "c">>, <<"d">> }

\* what the word list can have been read into: any tokens, repeated ones included
VocabLists == UNION { [1..k -> VocabTokens] : k \in 0..MaxVocab }

DocWords == { <<"a">>, <<"b", "c", ",">> }

\* a document is what load_directory emits: lowercase tokens joined by single spaces
Docs == UNION { { Join(t) : t \in [1..k -> DocWords] } : k \in 0..MaxDocTokens }

\* a call is given no document, one, or two
DocCounts == {0, 1, 2}

DocLists == UNION { [1..n -> Docs] : n \in DocCounts }

\* \w: the letters, digits and the underscore
IsNotSpace(c) == ~IsSpace(c)

IsWordChar(c) == c \in {"a", "b", "c", "d", "A", "B", "C", "_", "0", "1", "2"}

\* re.findall(r"(?u)\b\w+\b", s): the maximal runs of word characters, in order
RECURSIVE FindAllFrom(_, _, _, _)
FindAllFrom(s, i, cur, acc) ==
    IF i > Len(s)
    THEN IF cur = <<>> THEN acc ELSE Append(acc, cur)
    ELSE IF IsWordChar(s[i])
         THEN FindAllFrom(s, i + 1, Append(cur, s[i]), acc)
         ELSE FindAllFrom(s, i + 1, <<>>, IF cur = <<>> THEN acc ELSE Append(acc, cur))

\* build_analyzer(): lowercase=True, then the token pattern
Analyze(doc) == FindAllFrom(Lower(doc), 1, <<>>, <<>>)

\* _validate_vocabulary: a repeated term and an empty vocabulary raise ValueError
HasDuplicate(v) == \E i, j \in 1..Len(v) : i < j /\ v[i] = v[j]

VocabularyValidUnique(v) == ~HasDuplicate(v)

VocabularyValid(v) == ~HasDuplicate(v) /\ v # <<>>

\* self.vocabulary_: term i of the list supplied gets index i
VocabularyReversed(v) == [j \in 1..Len(v) |-> v[Len(v) + 1 - j]]

VocabularyOf(v) == v

\* _count_vocab(fixed_vocab=True): a feature that is no key of vocabulary_ is skipped
CountRow(doc, voc) ==
    [j \in 1..Len(voc) |->
        <<Cardinality({k \in 1..Len(Analyze(doc)) : Analyze(doc)[k] = voc[j]}), 1>>]

CountMatrix(docs, voc) == [i \in 1..Len(docs) |-> CountRow(docs[i], voc)]

\* norms = abs(X).sum(axis=1)
RowNorm(row) == RSum([j \in 1..Len(row) |-> RAbs(row[j])])

NormOfFirstRow(X, i) == RowNorm(X[1])

NormOfRow(X, i) == RowNorm(X[i])

\* _handle_zeros_in_scale: a zero norm is replaced by 1
HandleZerosPlusOne(norm) == RAdd(norm, One)

HandleZeros(norm) == IF norm = Zero THEN One ELSE norm

\* X /= norms[:, np.newaxis]
NormalizeL1(X) ==
    [i \in 1..Len(X) |->
        [j \in 1..Len(X[i]) |-> RDiv(X[i][j], HandleZeros(NormOfRow(X, i)))]]

\* vocab = [...][:65]; vectorizer = text.CountVectorizer(..., vocabulary=vocab)
VecEntry ==
    /\ v_pc = "idle"
    /\ v_op = "none"
    /\ vocab \in VocabLists
    /\ vocabulary_ = <<>>
    /\ docs_arg = <<>>
    /\ v_documents = <<>>
    /\ v_ret = "none"
    /\ norm_passes = 0
    /\ vec_calls = 0

\* no vectorizer has been made
VecParked ==
    /\ v_pc = "idle"
    /\ v_op = "none"
    /\ vocab = <<>>
    /\ vocabulary_ = <<>>
    /\ docs_arg = <<>>
    /\ v_documents = <<>>
    /\ v_ret = "none"
    /\ norm_passes = 0
    /\ vec_calls = 0

\* v_documents = vectorizer.fit_transform(documents).toarray(): the vocabulary is
\* validated and set anew from the list supplied, then the documents are counted
VecFitTransform ==
    /\ v_pc = "idle"
    /\ \E docs \in DocLists :
          /\ docs_arg' = docs
          /\ IF VocabularyValid(vocab)
             THEN /\ vocabulary_' = VocabularyOf(vocab)
                  /\ v_documents' = CountMatrix(docs, VocabularyOf(vocab))
                  /\ v_ret' = "ok"
                  /\ vec_calls' = Min(vec_calls + 1, 2)
             ELSE /\ v_ret' = "ValueError"
                  /\ UNCHANGED <<vocabulary_, v_documents, vec_calls>>
    /\ v_op' = "fit_transform"
    /\ v_pc' = "called"
    /\ UNCHANGED <<vocab, norm_passes, loadVars, deltaVars, vocabVars, pcaVars>>

\* v_test_docs = vectorizer.transform(test_docs).toarray(): the vocabulary is validated
\* and set only when the vectorizer has none yet
VecTransform ==
    /\ v_pc = "idle"
    /\ \E docs \in DocLists :
          /\ docs_arg' = docs
          /\ IF vocabulary_ # <<>> \/ VocabularyValid(vocab)
             THEN /\ vocabulary_' = IF vocabulary_ # <<>> THEN vocabulary_
                                    ELSE VocabularyOf(vocab)
                  /\ v_documents' = CountMatrix(docs, vocabulary_')
                  /\ v_ret' = "ok"
                  /\ vec_calls' = Min(vec_calls + 1, 2)
             ELSE /\ v_ret' = "ValueError"
                  /\ UNCHANGED <<vocabulary_, v_documents, vec_calls>>
    /\ v_op' = "transform"
    /\ v_pc' = "called"
    /\ UNCHANGED <<vocab, norm_passes, loadVars, deltaVars, vocabVars, pcaVars>>

\* v_documents = preprocessing.normalize(v_documents.astype(float), norm='l1'); the
\* cell can be run again on its own result; check_array rejects a matrix without rows
Normalize ==
    /\ v_pc \in {"called", "normed"}
    /\ v_ret = "ok"
    /\ norm_passes < 2
    /\ IF ValidSamples(v_documents)
       THEN /\ v_documents' = NormalizeL1(v_documents)
            /\ v_ret' = "ok"
       ELSE /\ v_ret' = "ValueError"
            /\ UNCHANGED v_documents
    /\ norm_passes' = norm_passes + 1
    /\ v_op' = "normalize"
    /\ v_pc' = "normed"
    /\ UNCHANGED <<vocab, vocabulary_, docs_arg, vec_calls, loadVars, deltaVars, vocabVars, pcaVars>>

\* the next cell starts
VecResume ==
    /\ v_pc \in {"called", "normed"}
    /\ v_pc' = "idle"
    /\ v_op' = "none"
    /\ docs_arg' = <<>>
    /\ v_documents' = <<>>
    /\ v_ret' = "none"
    /\ norm_passes' = 0
    /\ UNCHANGED <<vocab, vocabulary_, vec_calls, loadVars, deltaVars, vocabVars, pcaVars>>

NextVec == VecFitTransform \/ VecTransform \/ Normalize \/ VecResume

(***************************************************************************)
(* vocab = [l.strip() for l in open('data/wordlist.txt')                   *)
(*          if not l.startswith('#') and l.strip()][:65]                   *)
(***************************************************************************)
VocabLimit == 65

\* the lines a word list is written from: tokens, a comment, blank lines, padded
\* lines, an indented '#', and a last line without newline
LineKinds ==
    { <<"a", "\n">>, <<"b", "c", "\n">>, <<"#", "a", "\n">>, <<"\n">>, <<" ", "\n">>,
      <<" ", "a", " ", "\n">>, <<" ", "#", "a", "\n">>, <<"d">> }

RECURSIVE Concat(_)
Concat(parts) == IF parts = <<>> THEN <<>> ELSE Head(parts) \o Concat(Tail(parts))

ShortWordLists == UNION { { Concat(f) : f \in [1..k -> LineKinds] } : k \in 0..MaxLines }

\* word lists around the limit: n lines, every sixteenth a comment, the seventh blank
LongLine(i) ==
    IF i % 16 = 0 THEN <<"#", "a", "\n">>
    ELSE IF i = 7 THEN <<"\n">>
    ELSE IF i % 2 = 0 THEN <<"b", "c", "\n">>
    ELSE <<"a", "\n">>

LongWordLists ==
    { Concat([i \in 1..n |-> LongLine(i)]) : n \in (VocabLimit + 3)..(VocabLimit + 7) }

WordLists == ShortWordLists \cup LongWordLists

\* iterating over the open file: the text cut after every newline
LineEnds(s) ==
    { i \in 1..Len(s) : s[i] = "\n" \/ i = Len(s) }

\* the k-th smallest element of a set of numbers
KthOf(S, k) == CHOOSE e \in S : Cardinality({x \in S : x < e}) = k - 1

FileLines(s) ==
    LET ends == LineEnds(s)
    IN  [k \in 1..Cardinality(ends) |->
            SubSeq(s, IF k = 1 THEN 1 ELSE KthOf(ends, k - 1) + 1, KthOf(ends, k))]

\* str.strip()
RECURSIVE StripLeft(_)
StripLeft(l) == IF l # <<>> /\ IsSpace(Head(l)) THEN StripLeft(Tail(l)) ELSE l

RECURSIVE StripRight(_)
StripRight(l) ==
    IF l # <<>> /\ IsSpace(l[Len(l)]) THEN StripRight(SubSeq(l, 1, Len(l) - 1)) ELSE l

Strip(l) == StripRight(StripLeft(l))

\* if not l.startswith('#') and l.strip()
KeepLine(l) == ~StartsWithAt(l, 1, <<"#">>) /\ Strip(l) # <<>>

\* [...][:limit]
TakeAll(seq, limit) == seq

Take(seq, limit) == SubSeq(seq, 1, Min(limit, Len(seq)))

LoadVocab(text) ==
    LET kept == SelectSeq(FileLines(text), KeepLine)
    IN  Take([k \in 1..Len(kept) |-> Strip(kept[k])], VocabLimit)

\* the cell has not run
WordListEntry ==
    /\ w_pc = "start"
    /\ wordlist \in WordLists

\* no word list is being read
WordListParked ==
    /\ w_pc = "read"
    /\ wordlist = <<>>

ReadWordList ==
    /\ w_pc = "start"
    /\ vocab' = LoadVocab(wordlist)
    /\ w_pc' = "read"
    /\ UNCHANGED <<wordlist, v_pc, v_op, vocabulary_, docs_arg, v_documents, v_ret, norm_passes,
                   vec_calls, loadVars, deltaVars, pcaVars>>

NextVocab == ReadWordList

(***************************************************************************)
(* The PCA notebook: StandardScaler() on the known documents, the same     *)
(* scaler on the test documents, preprocessing.scale on the two stacked.   *)
(***************************************************************************)
\* scaler = preprocessing.StandardScaler(): with_mean and with_std
NewStandardScaler == [fitted |-> FALSE, mean_ |-> <<>>, scale_ |-> <<>>]

MeanOf(X) == [j \in 1..NCols(X) |-> Mean(Column(X, j))]

\* (X - mean_) / scale_, feature by feature
Standardize(X, mean_, scale_) ==
    [i \in 1..Len(X) |->
        [j \in 1..Len(X[i]) |-> RDiv(RSub(X[i][j], mean_[j]), scale_[j])]]

FittedStandardScaler(X) == [fitted |-> TRUE, mean_ |-> MeanOf(X), scale_ |-> ScaleOf(X)]

\* np.vstack((v_documents, v_test_docs))
Vstack(A, B) == A \o B

\* preprocessing.scale(X): X standardized with the mean and the deviation of its own columns
Scale(X) == Standardize(X, MeanOf(X), ScaleOf(X))

\* the normalized known documents the notebook standardizes
KnownMatrices == TrainMatrices

\* the normalized test documents: over the same vocabulary, and such that the
\* deviations of the stacked columns are rational
TestMatrices(known) ==
    { T \in QueryMatrices \ {ScenarioQuery} :
        /\ T # <<>> => NCols(T) = NCols(known)
        /\ \A stacked \in {Vstack(Standardize(known, MeanOf(known), ScaleOf(known)),
                                   Standardize(T, MeanOf(known), ScaleOf(known)))} :
              \A j \in 1..NCols(stacked) : HasRSqrt(Variance(Column(stacked, j))) }

\* the cell that fits the scaler has not run
PcaEntry ==
    /\ p_pc = "start"
    /\ p_scaler = NewStandardScaler
    /\ p_documents \in KnownMatrices
    /\ known_in = p_documents
    /\ p_test_docs = <<>>
    /\ test_in = <<>>
    /\ all_documents = <<>>

\* the PCA notebook is not being run
PcaParked ==
    /\ p_pc = "scaled"
    /\ p_scaler = NewStandardScaler
    /\ p_documents = <<>>
    /\ known_in = <<>>
    /\ p_test_docs = <<>>
    /\ test_in = <<>>
    /\ all_documents = <<>>

\* v_documents = scaler.fit_transform(v_documents); no row: ValueError
PcaFitTransform ==
    /\ p_pc = "start"
    /\ IF ValidSamples(p_documents)
       THEN /\ p_scaler' = FittedStandardScaler(p_documents)
            /\ p_documents' = Standardize(p_documents, MeanOf(p_documents),
                                          ScaleOf(p_documents))
            /\ p_pc' = "fitted"
       ELSE /\ p_pc' = "raised"
            /\ UNCHANGED <<p_scaler, p_documents>>
    /\ UNCHANGED <<p_test_docs, all_documents, known_in, test_in,
                   loadVars, deltaVars, vecVars, vocabVars>>

\* v_test_docs = scaler.transform(v_test_docs.toarray()); no row: ValueError
PcaTransform ==
    /\ p_pc = "fitted"
    /\ \E T \in TestMatrices(known_in) :
          /\ test_in' = T
          /\ IF ValidSamples(T)
             THEN /\ p_test_docs' = Standardize(T, p_scaler.mean_, p_scaler.scale_)
                  /\ p_pc' = "transformed"
             ELSE /\ p_test_docs' = T
                  /\ p_pc' = "raised"
    /\ UNCHANGED <<p_scaler, p_documents, all_documents, known_in,
                   loadVars, deltaVars, vecVars, vocabVars>>

\* all_documents = preprocessing.scale(np.vstack((v_documents, v_test_docs)))
PcaScale ==
    /\ p_pc = "transformed"
    /\ all_documents' = Scale(Vstack(p_documents, p_test_docs))
    /\ p_pc' = "scaled"
    /\ UNCHANGED <<p_scaler, p_documents, p_test_docs, known_in, test_in,
                   loadVars, deltaVars, vecVars, vocabVars>>

NextPca == PcaFitTransform \/ PcaTransform \/ PcaScale

InitLoad == LoadEntry /\ DeltaFresh /\ VecParked /\ WordListParked /\ PcaParked

InitDelta == LoadParked /\ DeltaFresh /\ VecParked /\ WordListParked /\ PcaParked

InitVec == LoadParked /\ DeltaFresh /\ VecEntry /\ WordListParked /\ PcaParked

InitVocab == LoadParked /\ DeltaFresh /\ VecParked /\ WordListEntry /\ PcaParked

InitPca == LoadParked /\ DeltaFresh /\ VecParked /\ WordListParked /\ PcaEntry

SpecLoad == InitLoad /\ [][NextLoad]_vars

\* the interpreter goes on to the next statement whenever there is one
SpecLoadFair == InitLoad /\ [][NextLoad]_vars /\ WF_vars(NextLoad)

SpecDelta == InitDelta /\ [][NextDelta]_vars

SpecVec == InitVec /\ [][NextVec]_vars

SpecVocab == InitVocab /\ [][NextVocab]_vars

SpecPca == InitPca /\ [][NextPca]_vars

(***************************************************************************)
(* What the claims about load_directory speak of, stated on the raw text  *)
(* of the source, independently of the operators that model the code.     *)
(***************************************************************************)
RefWhitespace == {" ", "\n"}

RefLowerOf == [c \in {"a", "b", "c", "A", "B", "C", " ", "\n"} |->
                 IF c = "A" THEN "a" ELSE IF c = "B" THEN "b" ELSE IF c = "C" THEN "c" ELSE c]

\* the positions where a maximal run of non-whitespace characters starts, and ends
RefTokenStarts(text) ==
    { i \in 1..Len(text) :
        text[i] \notin RefWhitespace /\ (i = 1 \/ text[i - 1] \in RefWhitespace) }

RefTokenEnds(text) ==
    { j \in 1..Len(text) :
        text[j] \notin RefWhitespace /\ (j = Len(text) \/ text[j + 1] \in RefWhitespace) }

RefTokenCount(text) == Cardinality(RefTokenStarts(text))

RefKth(S, k) == CHOOSE s \in S : Cardinality({t \in S : t < s}) = k - 1

\* the k-th token of text (k = 1, 2, ...), lowercased
RefToken(text, k) ==
    LET i == RefKth(RefTokenStarts(text), k)
        j == RefKth(RefTokenEnds(text), k)
    IN  [m \in 1..(j - i + 1) |-> RefLowerOf[text[i + m - 1]]]

RECURSIVE RefSpaced(_, _, _)
RefSpaced(text, from, to) ==
    IF from > to THEN <<>>
    ELSE IF from = to THEN RefToken(text, from)
    ELSE RefSpaced(text, from, to - 1) \o <<" ">> \o RefToken(text, to)

\* the documents the source being processed has contributed so far
Emitted == Len(documents) - doc_base

SourceFinished == l_pc \in {"scan", "done"} /\ filename # <<>>

\* C1: a source with n whitespace tokens contributes exactly floor(n / L) documents
\* when n >= L and none when n < L (L = max_length > 0).
C1_ChunkCountFloor ==
    (SourceFinished /\ max_length > 0) =>
        Emitted = IF RefTokenCount(contents) >= max_length
                  THEN RefTokenCount(contents) \div max_length
                  ELSE 0

\* C2: the k-th document a source contributes is its lowercased tokens
\* (k-1)*L .. k*L-1 (0-based) joined by single spaces: exactly L tokens each, the
\* first window at token 0, every next one L further, no token used twice.
C2_WindowsAreConsecutive ==
    \A k \in 1..Emitted :
        /\ k * max_length <= RefTokenCount(contents)
        /\ documents[doc_base + k]
             = RefSpaced(contents, (k - 1) * max_length + 1, k * max_length)

C2_Witness ==
    /\ SourceFinished
    /\ max_length = 2
    /\ Emitted = 2
    /\ doc_base > 0
    /\ \E i \in DOMAIN contents : contents[i] = "B"
    /\ \E i \in DOMAIN contents : contents[i] = "\n"

(***************************************************************************)
(* What the claims about Delta speak of.                                   *)
(***************************************************************************)
Returned(o) == d_pc = "returned" /\ op = o

\* the instance holds a fitted scaler and a reference set
Fitted == {"scaler", "train_X"} \subseteq attrs /\ scaler.fitted

\* the call that ended was given at least one row, each of the fitted width
QueryOfFittedWidth ==
    /\ NRows(X_arg) >= 1
    /\ \A i \in 1..Len(X_arg) : Len(X_arg[i]) = scaler.n_features_in_

\* the distance of the standardized query row i to reference row r
RefDist(i, r) ==
    DistEntry(IF metric_arg = "cosine" THEN "cosine" ELSE "cityblock",
              [j \in 1..Len(X_arg[i]) |-> RDiv(X_arg[i][j], scaler.scale_[j])],
              train_X[r])

\* reference row r is at a defined distance that no other reference row undercuts
RefNearest(i, r) ==
    /\ ~RefDist(i, r).nan
    /\ \A q \in 1..Len(train_X) :
          RefDist(i, q).nan \/ RLeq(RefDist(i, r).ord, RefDist(i, q).ord)

RefNearestRows(i) == {r \in 1..Len(train_X) : RefNearest(i, r)}

\* C3: predict(X, metric), metric 'cityblock' when omitted, returns M labels, the
\* i-th the training label of a reference row nearest to the standardized i-th
\* query row, in the order of the query rows.
C3_PredictReturnsNearestLabel ==
    (Returned("predict") /\ Fitted /\ QueryOfFittedWidth) =>
        /\ ret.kind = "ok"
        /\ Len(ret.value) = NRows(X_arg)
        /\ \A i \in 1..NRows(X_arg) :
              \E r \in RefNearestRows(i) : r <= Len(train_y) /\ ret.value[i] = train_y[r]

\* C4: when several reference rows are equidistant and nearest to a query row,
\* predict returns the label of the one with the lowest row index.
C4_TieGoesToLowestIndex ==
    (Returned("predict") /\ Fitted /\ QueryOfFittedWidth) =>
        \A i \in 1..NRows(X_arg) :
            Cardinality(RefNearestRows(i)) >= 2 =>
                LET low == CHOOSE r \in RefNearestRows(i) :
                              \A q \in RefNearestRows(i) : r <= q
                IN  /\ ret.kind = "ok"
                    /\ low <= Len(train_y)
                    /\ ret.value[i] = train_y[low]

\* C5: fit fails whenever len(y) differs from the number of rows of X, so a fitted
\* instance always holds as many labels as reference rows.
C5_FitRejectsLabelMismatch ==
    /\ (Returned("fit") /\ Len(y_arg) # NRows(X_arg)) => ret.kind # "ok"
    /\ Fitted => Len(train_y) = Len(train_X)

\* C6: fit fails when X has no rows, and no instance is ever fitted with an empty
\* reference set.
C6_FitRejectsEmpty ==
    /\ (Returned("fit") /\ NRows(X_arg) = 0) => ret.kind = "ValueError"
    /\ Fitted => Len(train_X) >= 1

C6_Witness ==
    /\ Returned("fit")
    /\ NRows(X_arg) = 0
    /\ ret.kind = "ValueError"
    /\ "train_X" \in attrs

\* C7: predict on an instance on which fit was never called raises; it returns no
\* prediction array.
C7_PredictBeforeFitRaises ==
    (Returned("predict") /\ ~fit_called) => ret.kind = "AttributeError"

C7_Witness ==
    /\ Returned("predict")
    /\ ~fit_called
    /\ NRows(X_arg) = 2
    /\ ret.kind = "AttributeError"

\* C8: predict on a fitted instance with a query whose width differs from the fitted
\* width raises; it returns no labels.
C8_WrongWidthRaises ==
    (Returned("predict") /\ Fitted /\ NRows(X_arg) >= 1
        /\ NCols(X_arg) # scaler.n_features_in_) => ret.kind = "ValueError"

C8_Witness ==
    /\ Returned("predict")
    /\ Fitted
    /\ NRows(X_arg) >= 1
    /\ NCols(X_arg) < scaler.n_features_in_
    /\ Len(train_y) = Len(train_X)
    /\ ret.kind = "ValueError"

\* C9: a predict call, whatever the query and the metric, leaves train_X, train_y
\* and the scaler as they were, and the caller's query matrix keeps its values.
C9_PredictKeepsState ==
    [][(d_pc = "idle" /\ d_pc' = "returned" /\ op' = "predict") =>
          /\ train_X' = train_X
          /\ train_y' = train_y
          /\ scaler' = scaler
          /\ attrs' = attrs
          /\ X_caller' = X_arg']_vars

C9_Witness ==
    /\ Returned("predict")
    /\ ret.kind = "ok"
    /\ metric_arg = "cosine"
    /\ NRows(X_arg) = 2
    /\ \E j \in 1..Len(scaler.scale_) : scaler.scale_[j] # One /\ X_arg[1][j] # Zero
    /\ X_caller = X_arg

\* C10: once fit has succeeded, after any later calls, failing ones included, predict
\* with a query of the fitted width does not fail the way an unfitted instance does.
C10_StaysFitted ==
    (Returned("predict") /\ fit_width > 0 /\ NRows(X_arg) >= 1 /\ NCols(X_arg) = fit_width)
        => ret.kind \notin {"AttributeError", "NotFittedError"}

\* the instance a new Delta() is after fit(X, y) has returned on it
RefFreshFit(X, y) ==
    LET c == CHOOSE c \in FitCases : c.X = X
    IN  [attrs |-> {"train_y", "scaler", "train_X"},
         train_y |-> y,
         scaler |-> c.ft.scaler,
         train_X |-> c.ft.out]

\* C11: re-fitting replaces the state: when the latest fit(X2, y2) returned, every
\* predict gives what a new instance fitted with (X2, y2) alone gives, whatever
\* was fitted before.
C11_RefitReplaces ==
    (Returned("predict") /\ last_fit.ok) =>
        \A fresh \in {RefFreshFit(last_fit.X, last_fit.y)} :
            ret = PredictOn(fresh, X_arg, metric_arg)

C11_Witness ==
    /\ Returned("predict")
    /\ last_fit.ok
    /\ fits_ok = 2
    /\ Len(last_fit.y) = NRows(last_fit.X)
    /\ NRows(last_fit.X) = 2
    /\ ret.kind = "ok"
    /\ NRows(X_arg) = 2
    /\ ret.value[1] # ret.value[2]

\* the labels of the first nearest reference rows of X under the metric named, computed
\* from the instance self alone
RefLabels(self, X, metric) ==
    LET name == IF metric = "cosine" THEN "cosine" ELSE "cityblock"
        Z == [i \in 1..Len(X) |->
                [j \in 1..Len(X[i]) |-> RDiv(X[i][j], self.scaler.scale_[j])]]
        idx == [i \in 1..Len(Z) |->
                  ArgMin([r \in 1..Len(self.train_X) |-> DistEntry(name, Z[i], self.train_X[r])])]
    IN  TakeLabels(self.train_y, idx)

\* C12: on a fitted instance a predict call gives what the query and the metric of
\* that call determine, whatever predict calls, with whatever metrics, came before:
\* the same as that call made first, nothing reused from a call with another metric.
C12_PredictDependsOnQueryAndMetric ==
    (Returned("predict") /\ Fitted /\ QueryOfFittedWidth) =>
        \A self \in {Self} : ret = RefLabels(self, X_arg, metric_arg)

C12_Witness ==
    /\ Returned("predict")
    /\ Fitted
    /\ QueryOfFittedWidth
    /\ prev_metric = "cosine"
    /\ metric_arg = "cityblock"
    /\ ret.kind = "ok"
    /\ Len(train_y) = Len(train_X)
    /\ RefLabels(Self, X_arg, "cosine").kind = "ok"
    /\ ret # RefLabels(Self, X_arg, "cosine")

\* C13: a .txt source with fewer tokens than the chunk length contributes no
\* document, author or title and raises nothing: every step that ends with such a
\* source as the one being processed leaves the three lists as they were, so what
\* the other sources contributed is what it is without that source.
C13_ShortSourceContributesNothing ==
    [][(filename' # <<>> /\ RefTokenCount(contents') < max_length') =>
          /\ documents' = documents
          /\ authors' = authors
          /\ titles' = titles
          /\ l_pc' # "raised"]_vars

C13_Witness ==
    /\ l_pc = "done"
    /\ filename = <<"x", ".", "t", "x", "t">>
    /\ max_length = 2
    /\ RefTokenCount(contents) = 1
    /\ doc_base > 0
    /\ Len(documents) = doc_base
    /\ Len(authors) = doc_base
    /\ Len(titles) = doc_base

\* C14: load_directory called with max_length = 0 raises at once: it appends no
\* document and never returns normally.
C14_ZeroLengthRaises ==
    max_length = 0 => (documents = <<>> /\ l_pc # "done")

\* the population variance of a column: the mean of the squares less the squared mean
RefPopVariance(col) ==
    LET n == <<Len(col), 1>>
        m == RDiv(RSum(col), n)
    IN  RSub(RDiv(RSum([i \in 1..Len(col) |-> RMul(col[i], col[i])]), n), RMul(m, m))

\* the population standard deviation, 1 standing in for 0
RefSigma(col) ==
    IF RefPopVariance(col) = Zero THEN One ELSE RSqrt(RefPopVariance(col))

RefSigmas(X) == [j \in 1..NCols(X) |-> RefSigma(Column(X, j))]

\* C15: fit stores, for every feature j of non-zero variance, X[i][j] / sigma_j with
\* sigma_j the population standard deviation of column j, no mean subtracted; predict
\* divides the query by the same sigma_j before it looks for the nearest row.
C15_ScaleOnlyPopulationStd ==
    /\ (Returned("fit") /\ ret.kind = "ok") =>
          \A j \in 1..NCols(X_arg) :
              \A var \in {RefPopVariance(Column(X_arg, j))} :
                  var # Zero =>
                      \A i \in 1..NRows(X_arg) :
                          /\ RMul(RMul(train_X[i][j], train_X[i][j]), var)
                                = RMul(X_arg[i][j], X_arg[i][j])
                          /\ RLeq(Zero, train_X[i][j]) <=> RLeq(Zero, X_arg[i][j])
    /\ (Returned("predict") /\ last_fit.ok /\ ret.kind = "ok") =>
          \A self \in {[scaler |-> [scale_ |-> RefSigmas(last_fit.X)],
                         train_X |-> train_X, train_y |-> train_y]} :
              ret = RefLabels(self, X_arg, metric_arg)

C15_Witness ==
    /\ Returned("predict")
    /\ last_fit.ok
    /\ ret.kind = "ok"
    /\ Len(train_y) = Len(train_X)
    /\ \E j \in 1..NCols(X_arg) :
          /\ RefPopVariance(Column(last_fit.X, j)) # Zero
          /\ scaler.scale_[j] # One
          /\ X_arg[1][j] # Zero
          /\ \E i \in 1..Len(train_X) : train_X[i][j] \notin {Zero, One}

\* every row of X holds the same value in column j
RefConstantColumn(X, j) == \A i \in 1..NRows(X) : X[i][j] = X[1][j]

\* C16: a training feature of zero variance, all-zero included, gets scale 1: fit
\* stores its values as given, and predict uses the query's values in it as given;
\* nothing is divided by zero.
C16_ZeroVarianceScaleOne ==
    /\ (Returned("fit") /\ ret.kind = "ok") =>
          \A j \in 1..NCols(X_arg) :
              RefConstantColumn(X_arg, j) =>
                  /\ scaler.scale_[j] = One
                  /\ \A i \in 1..NRows(X_arg) : train_X[i][j] = X_arg[i][j]
    /\ (Returned("predict") /\ last_fit.ok /\ ret.kind = "ok"
            /\ \A j \in 1..NCols(last_fit.X) : RefConstantColumn(last_fit.X, j)) =>
          ret = RefLabels([scaler |-> [scale_ |-> [j \in 1..NCols(last_fit.X) |-> One]],
                           train_X |-> last_fit.X, train_y |-> train_y],
                          X_arg, metric_arg)

C16_Witness ==
    /\ Returned("predict")
    /\ last_fit.ok
    /\ ret.kind = "ok"
    /\ NRows(last_fit.X) = 2
    /\ NCols(last_fit.X) = 2
    /\ \A i \in 1..2 : last_fit.X[i] = <<Zero, One>>
    /\ train_X = last_fit.X
    /\ X_arg = <<<<One, One>>, <<Zero, One>>>>

(***************************************************************************)
(* What the claims about the vectorizer and the normalizer speak of.      *)
(***************************************************************************)
\* the sum of the entries of a row
RefRowSum(row) == RSum(row)

\* a step in which normalize ran and returned
NormalizeReturns ==
    v_pc \in {"called", "normed"} /\ v_pc' = "normed" /\ v_op' = "normalize" /\ v_ret' = "ok"

\* C17: normalize works row by row: a row of non-zero sum becomes its entries divided
\* by that sum and so sums to 1, an all-zero row stays all-zero, and what a row
\* becomes is fixed by that row alone.
C17_NormalizePerRow ==
    [][NormalizeReturns =>
          /\ Len(v_documents') = Len(v_documents)
          /\ \A i \in 1..Len(v_documents) :
                \A sum \in {RefRowSum(v_documents[i])} :
                    /\ Len(v_documents'[i]) = Len(v_documents[i])
                    /\ sum # Zero =>
                          /\ \A j \in 1..Len(v_documents[i]) :
                                RMul(v_documents'[i][j], sum) = v_documents[i][j]
                          /\ RefRowSum(v_documents'[i]) = One
                    /\ sum = Zero => v_documents'[i] = v_documents[i]]_vars

C17_Witness ==
    /\ v_pc = "normed"
    /\ v_ret = "ok"
    /\ norm_passes = 1
    /\ Len(v_documents) = 2
    /\ Len(vocabulary_) = 2
    /\ v_documents[1] = <<Zero, Zero>>
    /\ v_documents[2] = <<<<1, 2>>, <<1, 2>>>>
    /\ docs_arg[1] = <<>>

\* C18: normalizing a row that sums to 1, such as one normalize has produced from a
\* non-zero row of counts, gives that row again.
C18_NormalizeIdempotent ==
    [][NormalizeReturns =>
          \A i \in 1..Len(v_documents) :
              RefRowSum(v_documents[i]) = One => v_documents'[i] = v_documents[i]]_vars

C18_Witness ==
    /\ v_pc = "normed"
    /\ v_ret = "ok"
    /\ norm_passes = 2
    /\ \E i \in 1..Len(v_documents) :
          /\ RefRowSum(v_documents[i]) = One
          /\ \E j \in 1..Len(v_documents[i]) : v_documents[i][j] \notin {Zero, One}

\* the characters that make up words in the documents
RefWordChars == {"a", "b", "c", "d"}

\* how many maximal runs of word characters of doc are the token t
RefCount(doc, t) ==
    Cardinality({ i \in 1..Len(doc) :
        /\ i = 1 \/ doc[i - 1] \notin RefWordChars
        /\ i + Len(t) - 1 <= Len(doc)
        /\ SubSeq(doc, i, i + Len(t) - 1) = t
        /\ i + Len(t) > Len(doc) \/ doc[i + Len(t)] \notin RefWordChars })

\* a vectorizer call has returned its matrix
Counted == v_pc = "called" /\ v_ret = "ok"

\* C19: entry [i, j] of the count matrix is the number of occurrences of vocabulary
\* token j among the tokens of document i; other tokens change nothing, and a
\* document without vocabulary tokens, the empty one included, gives V zeros.
C19_CountMatrixEntries ==
    Counted =>
        /\ Len(v_documents) = Len(docs_arg)
        /\ \A i \in 1..Len(docs_arg) :
              /\ Len(v_documents[i]) = Len(vocab)
              /\ \A j \in 1..Len(vocab) :
                    v_documents[i][j] = <<RefCount(docs_arg[i], vocab[j]), 1>>

C19_Witness ==
    /\ Counted
    /\ vocab = <<<<"d">>, <<"a">>>>
    /\ docs_arg = <<<<"a", " ", "a">>, <<"b", "c", ",">>>>
    /\ v_documents = <<<<Zero, <<2, 1>>>>, <<Zero, Zero>>>>

\* C20: whatever fit_transform and transform calls were made, the vectorizer's tokens
\* are the supplied vocab in its order, and every row produced, counted or normalized,
\* has V entries, entry j non-zero exactly when token j occurs in the document.
C20_VocabularyFixed ==
    /\ vocabulary_ # <<>> => vocabulary_ = vocab
    /\ (v_pc # "idle" /\ v_ret = "ok") =>
          \A i \in 1..Len(v_documents) :
              /\ Len(v_documents[i]) = Len(vocab)
              /\ \A j \in 1..Len(vocab) :
                    v_documents[i][j] # Zero <=> RefCount(docs_arg[i], vocab[j]) > 0

C20_Witness ==
    /\ Counted
    /\ v_op = "transform"
    /\ vec_calls = 2
    /\ vocab = <<<<"b", "c">>, <<"a">>>>
    /\ vocabulary_ = vocab
    /\ docs_arg = <<<<"a">>, <<"b", "c", ",", " ", "a">>>>
    /\ v_documents = <<<<Zero, One>>, <<One, One>>>>

(***************************************************************************)
(* What the claim about the word list speaks of, stated on the file text.  *)
(***************************************************************************)
\* where the lines of the text start, and where the line starting at i ends
RefLineStarts(t) == { i \in 1..Len(t) : i = 1 \/ t[i - 1] = "\n" }

RefLineEnd(t, i) ==
    CHOOSE e \in i..Len(t) :
        /\ t[e] = "\n" \/ e = Len(t)
        /\ \A j \in i..(e - 1) : t[j] # "\n"

\* the positions of the line starting at i that hold no whitespace
RefInk(t, i) == { j \in i..RefLineEnd(t, i) : t[j] \notin RefWhitespace }

\* the lines that are not blank and do not start with '#'
RefUsableLines(t) == { i \in RefLineStarts(t) : t[i] # "#" /\ RefInk(t, i) # {} }

\* the line starting at i without the whitespace around it
RefStripped(t, i) ==
    LET ink == RefInk(t, i)
        lo == CHOOSE j \in ink : \A q \in ink : j <= q
        hi == CHOOSE j \in ink : \A q \in ink : q <= j
    IN  SubSeq(t, lo, hi)

\* C21: vocab is the stripped lines of the word list, in file order, that are not
\* blank and do not start with '#', cut to the first 65 of them; no token is empty
\* and none comes from a comment line.
C21_VocabFromWordList ==
    w_pc = "read" =>
        \A usable \in {RefUsableLines(wordlist)} :
            /\ Len(vocab) = IF Cardinality(usable) < 65 THEN Cardinality(usable) ELSE 65
            /\ \A k \in 1..Len(vocab) :
                  /\ vocab[k] = RefStripped(wordlist, RefKth(usable, k))
                  /\ vocab[k] # <<>>

C21_Witness ==
    /\ w_pc = "read"
    /\ Len(vocab) = 65
    /\ Cardinality(RefUsableLines(wordlist)) = 67
    /\ \E i \in RefLineStarts(wordlist) : wordlist[i] = "#"
    /\ \E i \in RefLineStarts(wordlist) : wordlist[i] = "\n"

\* C22: with an empty vocabulary the first fit_transform call raises; it gives no
\* matrix of zero-width rows.
C22_EmptyVocabularyRaises ==
    (v_pc = "called" /\ v_op = "fit_transform" /\ vocab = <<>>) =>
        /\ v_ret = "ValueError"
        /\ v_documents = <<>>
        /\ vocabulary_ = <<>>

C22_Witness ==
    /\ v_pc = "called"
    /\ v_op = "fit_transform"
    /\ vocab = <<>>
    /\ vec_calls = 0
    /\ Len(docs_arg) = 2
    /\ v_ret = "ValueError"

\* the part of a .txt file name between its first '_' and the next '_', or the
\* extension when there is no second '_'
RefTitle(name) ==
    LET stem == SubSeq(name, 1, Len(name) - 4)
        first == CHOOSE i \in 1..Len(stem) :
                     stem[i] = "_" /\ \A q \in 1..(i - 1) : stem[q] # "_"
        next == CHOOSE e \in (first + 1)..(Len(stem) + 1) :
                    /\ e = Len(stem) + 1 \/ stem[e] = "_"
                    /\ \A q \in (first + 1)..(e - 1) : stem[q] # "_"
    IN  SubSeq(stem, first + 1, next - 1)

RefDigits == <<"0", "1", "2", "3", "4", "5", "6", "7", "8", "9">>

\* k < 100 written in decimal
RefDecimal(k) ==
    IF k < 10 THEN <<RefDigits[k + 1]>>
    ELSE <<RefDigits[(k \div 10) + 1], RefDigits[(k % 10) + 1]>>

\* C23: the titles a source has got so far are '<title>-1', '<title>-2', ... in the
\* order of its documents, <title> the second '_'-delimited segment of the file
\* name without '.txt'; the counter starts at 1 for every source and goes up by 1
\* per document.
C23_TitlesNumbered ==
    /\ l_pc # "raised" => Len(titles) = Len(documents)
    /\ filename # <<>> =>
          \A k \in 1..(Len(titles) - doc_base) :
              titles[doc_base + k] = RefTitle(filename) \o <<"-">> \o RefDecimal(k)

C23_Witness ==
    /\ SourceFinished
    /\ filename = <<"G", "_", "m", "_", "2", ".", "t", "x", "t">>
    /\ max_length = 1
    /\ doc_base = 2
    /\ Emitted = 3
    /\ titles[1] = <<"e", "p", "-", "1">>
    /\ titles[Len(titles)] = <<"m", "-", "3">>

\* the last fit was given [[1, 0], [0, 1]] with labels ['A', 'B'] and succeeded
ScenarioFitted ==
    /\ last_fit.ok
    /\ last_fit.X = << <<One, Zero>>, <<Zero, One>> >>
    /\ last_fit.y = <<"A", "B">>

\* C24: fitted on [[1, 0], [0, 1]] with labels ['A', 'B'], predict answers ['A'] to
\* the query [[0.9, 0.1]] under the city-block metric, named or by default.
C24_ScenarioPredictsA ==
    (Returned("predict") /\ ScenarioFitted /\ X_arg = ScenarioQuery
        /\ metric_arg \in {"omitted", "cityblock"}) =>
            ret = [kind |-> "ok", value |-> <<"A">>]

C24_Witness ==
    /\ Returned("predict")
    /\ ScenarioFitted
    /\ X_arg = ScenarioQuery
    /\ metric_arg = "cityblock"
    /\ scaler.scale_ = <<Rat(1, 2), Rat(1, 2)>>
    /\ train_X = << <<Rat(2, 1), Zero>>, <<Zero, Rat(2, 1)>> >>
    /\ ret.value = <<"A">>

\* C25: for a fitted instance and a query of the fitted width, every entry of the
\* distance matrix predict computes is a defined number, all-zero query rows and
\* all-zero reference rows included, and under city-block it is not negative.
C25_DistancesDefined ==
    (Returned("predict") /\ Fitted /\ QueryOfFittedWidth) =>
        \A i \in 1..NRows(X_arg), r \in 1..Len(train_X) :
            /\ ~RefDist(i, r).nan
            /\ metric_arg # "cosine" => RLeq(Zero, RefDist(i, r).ord)

\* the column means of the known documents as normalize left them
RefKnownMeans == [j \in 1..NCols(known_in) |->
                    RDiv(RSum(Column(known_in, j)), <<NRows(known_in), 1>>)]

\* X standardized with the means and deviations of the known documents
RefByKnown(X) ==
    [i \in 1..Len(X) |->
        [j \in 1..Len(X[i]) |->
            RDiv(RSub(X[i][j], RefKnownMeans[j]), RefSigmas(known_in)[j])]]

\* C27: the vectors handed to the projection are the known and the test documents
\* standardized with the means and deviations of the known documents alone; the
\* test documents add nothing to a mean or a scale that is applied.
C27_TestDocsDoNotLeak ==
    (p_pc = "scaled" /\ known_in # <<>>) =>
        all_documents = RefByKnown(known_in) \o RefByKnown(test_in)

\* C26: for a fitted instance, a query X of the fitted width, a metric and a row i,
\* predict(X)[i] is what predict([X[i]])[0] is: the label when the one-row call gives
\* one, and the same failure when it fails.
C26_RowsIndependent ==
    (Returned("predict") /\ Fitted /\ QueryOfFittedWidth) =>
        \A i \in 1..NRows(X_arg) :
            \A single \in {PredictOn(Self, <<X_arg[i]>>, metric_arg)} :
                IF single.kind = "ok"
                THEN ret.kind = "ok" /\ ret.value[i] = single.value[1]
                ELSE ret.kind = single.kind

\* the whitespace tokens of a document, in order
RefSpaceTokens(doc) ==
    [k \in 1..RefTokenCount(doc) |->
        SubSeq(doc, RefKth(RefTokenStarts(doc), k), RefKth(RefTokenEnds(doc), k))]

\* C28: for every document the vectorizer is given, the tokens its token pattern
\* extracts are the whitespace tokens of the document, as many and the same, whatever
\* punctuation the document holds.
C28_SameTokensAsSegmenter ==
    Counted =>
        \A i \in 1..Len(docs_arg) : Analyze(docs_arg[i]) = RefSpaceTokens(docs_arg[i])

\* C29: predict on a fitted instance never indexes outside the stored labels, and
\* every label it returns is one of those passed to the latest fit that succeeded.
C29_LabelsFromLastFit ==
    (Returned("predict") /\ Fitted) =>
        /\ last_fit.ok
        /\ ret.kind # "IndexError"
        /\ ret.kind = "ok" =>
              \A i \in 1..Len(ret.value) :
                  \E k \in 1..Len(last_fit.y) : ret.value[i] = last_fit.y[k]

\* every .txt entry still to come, and the one at hand, has a '_' in its name
RefNamesSplit ==
    \A name \in remaining \cup {filename} :
        (name # <<>> /\ EndsWith(name, TxtExt)) => \E i \in 1..Len(name) : name[i] = "_"

=============================================================================
